---- MODULE Spec2Model ----
(***************************************************************************)
(* ark-serman (src/main.go): the unit-status aggregation getUnitStates,    *)
(* the dashboard handlers serveRoot / rpcStart / rpcStop, the RCON client  *)
(* runRcon and the argument contract of main, as a state machine.          *)
(*                                                                         *)
(* The supervision bus (go-systemd), the RCON server and the HTTP clients  *)
(* are the environment: every call into them is one step whose result is   *)
(* chosen nondeterministically among the results the call can give.        *)
(***************************************************************************)
EXTENDS Integers, Sequences, FiniteSets, Bags, TLC

(***************************************************************************)
(* Strings.  A Go string is modelled as the sequence of its characters, so *)
(* that slicing (s[4:len(s)-8]) and the byte-wise < of sort.Slice are      *)
(* computed and not assumed.                                               *)
(***************************************************************************)

\* The characters used, in increasing byte order ('-' 45, '.' 46, 'a'..'z').
Alphabet ==
    << "-", ".", "a", "b", "c", "d", "e", "f", "g", "h", "i", "j", "k", "l", "m",
       "n", "o", "p", "q", "r", "s", "t", "u", "v", "w", "x", "y", "z" >>

Ord(ch) == CHOOSE i \in 1..Len(Alphabet) : Alphabet[i] = ch

\* Go's s < t on strings: byte-wise lexicographic, a proper prefix is smaller.
RECURSIVE StrLess(_, _)
StrLess(s, t) ==
    IF t = <<>> THEN FALSE
    ELSE IF s = <<>> THEN TRUE
    ELSE IF s[1] = t[1] THEN StrLess(Tail(s), Tail(t))
    ELSE Ord(s[1]) < Ord(t[1])

\* Go's s[lo:hi] panics ("slice bounds out of range") unless 0 <= lo <= hi <= len(s).
SliceInRange(s, lo, hi) == 0 <= lo /\ lo <= hi /\ hi <= Len(s)

Slice(s, lo, hi) == SubSeq(s, lo + 1, hi)

\* A slash-separated path is the sequence of its segments; a trailing slash
\* is a trailing empty segment.  path.Base: strip trailing slashes, keep what
\* follows the last remaining slash.
RECURSIVE StripTrailingSlashes(_)
StripTrailingSlashes(p) ==
    IF p # <<>> /\ p[Len(p)] = <<>> THEN StripTrailingSlashes(SubSeq(p, 1, Len(p) - 1))
    ELSE p

Base(p) ==
    LET q == StripTrailingSlashes(p)
    IN  IF q = <<>> THEN <<"/">> ELSE q[Len(q)]

(***************************************************************************)
(* float64.  Natural numbers of any size are little-endian sequences of    *)
(* limbs in base 2^15; a finite non-negative float64 is [m, e], the value  *)
(* m * 2^e with m below 2^53 (or exactly 2^53 after a carry).              *)
(***************************************************************************)

Limb == 2^15

RECURSIVE BigOf(_)
BigOf(n) == IF n = 0 THEN <<>> ELSE <<n % Limb>> \o BigOf(n \div Limb)

RECURSIVE IntOf(_)
IntOf(a) == IF a = <<>> THEN 0 ELSE a[1] + Limb * IntOf(Tail(a))

RECURSIVE BigAddC(_, _, _)
BigAddC(a, b, carry) ==
    IF a = <<>> /\ b = <<>> THEN (IF carry = 0 THEN <<>> ELSE <<carry>>)
    ELSE LET x == IF a = <<>> THEN 0 ELSE a[1]
             y == IF b = <<>> THEN 0 ELSE b[1]
             s == x + y + carry
         IN  <<s % Limb>> \o BigAddC(IF a = <<>> THEN a ELSE Tail(a),
                                     IF b = <<>> THEN b ELSE Tail(b),
                                     s \div Limb)

BigAdd(a, b) == BigAddC(a, b, 0)

RECURSIVE BigMulLimb(_, _, _)
BigMulLimb(a, k, carry) ==
    IF a = <<>> THEN (IF carry = 0 THEN <<>> ELSE <<carry>>)
    ELSE LET s == a[1] * k + carry
         IN  <<s % Limb>> \o BigMulLimb(Tail(a), k, s \div Limb)

BigShiftLimb(a) == IF a = <<>> THEN <<>> ELSE <<0>> \o a

RECURSIVE BigMul(_, _)
BigMul(a, b) ==
    IF a = <<>> \/ b = <<>> THEN <<>>
    ELSE IF b[1] = 0 THEN BigShiftLimb(BigMul(a, Tail(b)))
    ELSE BigAdd(BigMulLimb(a, b[1], 0), BigShiftLimb(BigMul(a, Tail(b))))

BigOdd(a) == a # <<>> /\ a[1] % 2 = 1

RECURSIVE BitLenInt(_)
BitLenInt(n) == IF n = 0 THEN 0 ELSE 1 + BitLenInt(n \div 2)

BitLen(a) == IF a = <<>> THEN 0 ELSE 15 * (Len(a) - 1) + BitLenInt(a[Len(a)])

\* a without leading zero limbs
RECURSIVE Trim(_)
Trim(a) == IF a # <<>> /\ a[Len(a)] = 0 THEN Trim(SubSeq(a, 1, Len(a) - 1)) ELSE a

\* floor(a / 2^s)
BigShiftRight(a, s) ==
    LET d == s \div 15
        k == s % 15
        b == IF d >= Len(a) THEN <<>> ELSE SubSeq(a, d + 1, Len(a))
    IN  Trim([i \in 1..Len(b) |->
                (b[i] \div 2^k) + (IF i < Len(b) THEN (b[i + 1] % 2^k) * 2^(15 - k) ELSE 0)])

\* bit k of a (bit 0 is the lowest), and whether any bit below bit k is set
Bit(a, k) == IF k \div 15 + 1 > Len(a) THEN 0 ELSE (a[k \div 15 + 1] \div 2^(k % 15)) % 2

AnyBitBelow(a, k) ==
    \E i \in 1..Len(a) :
        \/ i < k \div 15 + 1 /\ a[i] # 0
        \/ i = k \div 15 + 1 /\ a[i] % 2^(k % 15) # 0

\* a / 2^s (s >= 1) rounded to nearest, ties to even: the IEEE 754 default
\* rounding.
ShiftRightRNE(a, s) ==
    LET q == BigShiftRight(a, s)
    IN  IF Bit(a, s - 1) = 1 /\ (AnyBitBelow(a, s - 1) \/ BigOdd(q))
        THEN BigAdd(q, <<1>>) ELSE q

\* The precision of a float64 significand, in bits.
MantBits == 52 + 1

RoundToFloat64(x) ==
    LET s == BitLen(x.m) - MantBits
    IN  IF s <= 0 THEN x
        ELSE [m |-> ShiftRightRNE(x.m, s), e |-> x.e + s]

\* float64(c) for an unsigned integer c
Float64OfUint(c) == RoundToFloat64([m |-> BigOf(c), e |-> 0])

\* x * y in float64
FMul(x, y) == RoundToFloat64([m |-> BigMul(x.m, y.m), e |-> x.e + y.e])

\* The float64 nearest to the literal 0.000000001: 4835703278458517 * 2^-82.
Nano == [m |-> <<22165, 20557, 14383, 137>>, e |-> -82]

\* The float64 nearest to the literal 0.000001: 4722366482869645 * 2^-72.
Micro == [m |-> <<28045, 16747, 7134, 134>>, e |-> -72]

\* math.Pow10(n), exact for the small n used.
RECURSIVE Pow10Int(_)
Pow10Int(n) == IF n = 0 THEN 1 ELSE 10 * Pow10Int(n - 1)

Pow10(n) == [m |-> BigOf(Pow10Int(n)), e |-> 0]

RECURSIVE BigShiftLeft(_, _)
BigShiftLeft(a, s) == IF s = 0 \/ a = <<>> THEN a ELSE BigShiftLeft(BigAdd(a, a), s - 1)

\* math.Round(x) for x >= 0: the nearest integer, halves away from zero.
MathRound(x) ==
    IF x.e >= 0 THEN IntOf(BigShiftLeft(x.m, x.e))
    ELSE IntOf(BigShiftRight(x.m, -x.e)) + Bit(x.m, (-x.e) - 1)

\* round(val, precision) is math.Round(val*Pow10(precision)) / Pow10(precision).
\* The final quotient n / 10^precision is a correctly rounded float64 division
\* of two exact integers, i.e. the float64 that the decimal "n / 10^precision"
\* denotes; it is represented by n, the value in units of 10^-precision.
round(val, precision) == MathRound(FMul(val, Pow10(precision)))

(***************************************************************************)
(* Names.                                                                  *)
(***************************************************************************)

ArkPrefix == <<"a", "r", "k", "-">>
ServiceSuffix == <<".", "s", "e", "r", "v", "i", "c", "e">>

\* "ark-serman.service", the manager's own unit (the literal of getUnitStates).
SelfUnit == ArkPrefix \o <<"s", "e", "r", "m", "a", "n">> \o ServiceSuffix

\* Unit files the pattern ark-* can match.
UnitIsland == ArkPrefix \o <<"i", "s", "l", "a", "n", "d">> \o ServiceSuffix
UnitRagnarok == ArkPrefix \o <<"r", "a", "g", "n", "a", "r", "o", "k">> \o ServiceSuffix
UnitTimer == ArkPrefix \o <<"x", ".", "t", "i", "m", "e", "r">>
UnitBare == ArkPrefix \o ServiceSuffix

\* The directory the bus reports unit files in: /etc/systemd/user.
UnitDir ==
    << <<>>, <<"e", "t", "c">>, <<"s", "y", "s", "t", "e", "m", "d">>, <<"u", "s", "e", "r">> >>

UnitPath(name) == UnitDir \o <<name>>

\* The ActiveState values systemd reports.
ActiveStates == {"active", "activating", "deactivating", "inactive", "failed"}

NoErr == "<nil>"
ErrConnect == "dial unix /run/user/1000/bus: connection refused"
ErrListUnitFiles == "ListUnitFilesByPatterns: context canceled"
ErrListUnits == "ListUnitsByNames: context canceled"
ErrGetProperties == "GetAll: context canceled"
ErrJob == "job: context canceled"
ErrNoSuchUnit == "Unit not found."

(***************************************************************************)
(* Property maps (map[string]interface{}) and unit records.                *)
(***************************************************************************)

Uint64Val(n) == [type |-> "uint64", val |-> n]
StringVal == [type |-> "string", val |-> 0]

\* The nil map of a record whose Props was never assigned.
NilProps == [nil |-> TRUE, m |-> <<>>]

\* What GetAllProperties gives for a unit with resource accounting.
CgroupProps(c) ==
    [nil |-> FALSE,
     m |-> ("CPUUsageNSec" :> Uint64Val(c.cpu)) @@ ("MemoryCurrent" :> Uint64Val(c.mem))
           @@ ("Id" :> StringVal)]

\* ... for a unit type without a cgroup (both counters missing), and with a
\* counter that is not a uint64.
NoCgroupProps == [nil |-> FALSE, m |-> ("Id" :> StringVal)]
OddProps ==
    [nil |-> FALSE,
     m |-> ("CPUUsageNSec" :> Uint64Val(0)) @@ ("MemoryCurrent" :> StringVal)
           @@ ("Id" :> StringVal)]

\* p[key].(uint64): panics unless the key is present with a uint64 value.
IsUint64(p, key) == key \in DOMAIN p.m /\ p.m[key].type = "uint64"
AssertUint64(p, key) == p.m[key].val

\* The zero value of unitStatus (make([]unitStatus, n)).
ZeroUnitStatus ==
    [Name |-> <<>>, ActiveState |-> "", Props |-> NilProps, Running |-> FALSE,
     DisplayName |-> <<>>, CPU |-> 0, Memory |-> 0]

\* (mutant) a unit that is stopping no longer counts as running
IsRunningNoDeactivating(activeState) == activeState = "active" \/ activeState = "activating"

\* out[i].Running
IsRunning(activeState) ==
    activeState = "active" \/ activeState = "activating" \/ activeState = "deactivating"

\* (mutant) only the prefix is stripped
DisplayNameKeepSuffix(name) == Slice(name, 4, Len(name))

\* out[i].DisplayName = s.Name[4 : len(s.Name)-8]
DisplayNameInRange(name) == SliceInRange(name, 4, Len(name) - 8)
DisplayNameOf(name) == Slice(name, 4, Len(name) - 8)

\* (mutant) the value cut to one decimal place instead of rounded
CpuOfTruncated(c) ==
    LET x == FMul(FMul(Float64OfUint(c), Nano), Pow10(1))
    IN  IntOf(BigShiftRight(x.m, -x.e))

\* out[i].CPU = round(float64(c)*0.000000001, 1), in tenths of a second
CpuOf(c) == round(FMul(Float64OfUint(c), Nano), 1)

\* out[i].Memory = round(float64(m)*0.000001, 1), in tenths of 10^6 bytes
MemoryOf(m) == round(FMul(Float64OfUint(m), Micro), 1)

\* sort.Slice(unitStates, Name <): names are distinct, so the result is the one
\* ordering without inversions.
RECURSIVE SortedInsert(_, _)
SortedInsert(s, sorted) ==
    IF sorted = <<>> THEN <<s>>
    ELSE IF StrLess(sorted[1].Name, s.Name) THEN <<sorted[1]>> \o SortedInsert(s, Tail(sorted))
    ELSE <<s>> \o sorted

RECURSIVE SortByName(_)
SortByName(seq) ==
    IF seq = <<>> THEN <<>> ELSE SortedInsert(seq[1], SortByName(Tail(seq)))

\* (mutant) the own unit is not skipped
KeepAll(b) == TRUE

\* the filter of the unit-file loop: b == "ark-serman.service" is skipped
KeepUnitFile(b) == b # SelfUnit

\* unitNames: the base name of every unit file, in order, the own unit dropped
RECURSIVE UnitNamesOf(_)
UnitNamesOf(files) ==
    IF files = <<>> THEN <<>>
    ELSE LET b == Base(files[1])
         IN  (IF KeepUnitFile(b) THEN <<b>> ELSE <<>>) \o UnitNamesOf(Tail(files))

Range(seq) == {seq[i] : i \in 1..Len(seq)}

\* All orderings of a finite set, as sequences.
Orderings(S) ==
    {f \in [1..Cardinality(S) -> S] : \A i, j \in 1..Cardinality(S) : f[i] = f[j] => i = j}

(***************************************************************************)
(* State.                                                                  *)
(***************************************************************************)

VARIABLES
    cmds,       \* flag.Args(): the positional arguments of the command line
    pwd,        \* *pwd: the -pwd flag
    mainpc,     \* where main is: "start", "rcon", "rconDialed", "rconWait",
                \* "server", "serving", "exited"
    exitCode,   \* the exit code of the process once mainpc = "exited"
    ioLog,      \* the network I/O main has attempted, in order
    stdout,     \* what runRcon printed, in order
    rconSent,   \* the commands the RCON server received, in order
    rconOpen,   \* whether the RCON connection is open
    rconK,      \* number of commands of cmds completed by runRcon's loop
    unitFiles,  \* bus: the unit files matching ark-*
    active,     \* bus: the ActiveState of each of these units
    counters,   \* bus: the [cpu, mem] counter readings its units can show
    busConns,   \* bus: number of open connections from this process
    reqs,       \* the HTTP requests in flight or answered: a bag of records
    nreq        \* number of HTTP requests accepted so far

vars ==
    << cmds, pwd, mainpc, exitCode, ioLog, stdout, rconSent, rconOpen, rconK,
       unitFiles, active, counters, busConns, reqs, nreq >>

mainVars == << cmds, pwd, mainpc, exitCode, ioLog >>
rconVars == << stdout, rconSent, rconOpen, rconK >>
busVars == << unitFiles, active, counters, busConns >>

(***************************************************************************)
(* Bounds.                                                                 *)
(***************************************************************************)

\* HTTP requests accepted in one run of the server.
MaxRequests == 3

\* HTTP requests handled at the same time.
MaxInFlight == 2

\* The counter sweep reads the counters j * SweepStep + d, j in 0..MaxSweep,
\* d in {-1, 0, 1}: every exact half of the last kept digit and its neighbours.
MaxSweep == 40

(***************************************************************************)
(* HTTP requests and responses.                                            *)
(***************************************************************************)

Rpc == <<"r", "p", "c">>
Start == <<"s", "t", "a", "r", "t">>
Stop == <<"s", "t", "o", "p">>

\* r.URL.Path split at its slashes: "/" is << <<>>, <<>> >>.
RootPath == << <<>>, <<>> >>
StartPath(rest) == << <<>>, Rpc, Start >> \o rest
StopPath(rest) == << <<>>, Rpc, Stop >> \o rest

HasPrefix(p, q) == Len(p) >= Len(q) /\ SubSeq(p, 1, Len(q)) = q

\* The mux of runServer: the longest registered pattern that is a prefix.
Route(p) ==
    IF HasPrefix(p, << <<>>, Rpc, Start >>) /\ Len(p) >= 4 THEN "rpcStart"
    ELSE IF HasPrefix(p, << <<>>, Rpc, Stop >>) /\ Len(p) >= 4 THEN "rpcStop"
    ELSE "serveRoot"

NoResp == [status |-> 0, ctype |-> "", location |-> "", text |-> "", rows |-> <<>>]

\* The getUnitStates return value: state is "none" before the call returns,
\* "returned" once it has, "panicked" when it ended by a runtime fault.
NoRet == [state |-> "none", isNil |-> TRUE, list |-> <<>>, err |-> NoErr]

NewRequest(path) ==
    [handler |-> Route(path), path |-> path, pc |-> "connect", conn |-> FALSE,
     unitNames |-> <<>>, unitStates |-> <<>>, i |-> 1, out |-> <<>>,
     calls |-> <<>>, ret |-> NoRet, resp |-> NoResp]

\* One call into the bus as the request saw it: the operation, the unit and
\* mode it named, the error it returned and the property map it returned.
Call(op, unit, mode, err, props) ==
    [op |-> op, unit |-> unit, mode |-> mode, err |-> err, props |-> props]

\* replyError
replyError(s) ==
    [status |-> 500, ctype |-> "text/plain", location |-> "", text |-> s, rows |-> <<>>]

\* http.Redirect(w, r, "/", http.StatusFound)
Redirect(url, code) ==
    [status |-> code, ctype |-> "", location |-> url, text |-> "", rows |-> <<>>]

\* One <tr> of the page template: the cells it prints for a record.
Row(u) ==
    IF u.Running
    THEN [map |-> u.DisplayName, state |-> u.ActiveState, form |-> StopPath(<<u.Name>>),
          cells |-> <<u.CPU, u.Memory>>]
    ELSE [map |-> u.DisplayName, state |-> u.ActiveState, form |-> StartPath(<<u.Name>>),
          cells |-> <<>>]

Rows(list) == [k \in 1..Len(list) |-> Row(list[k])]

\* pageTmpl.Execute on a writer that takes everything.
Page(list) ==
    [status |-> 200, ctype |-> "text/html", location |-> "", text |-> "", rows |-> Rows(list)]

(***************************************************************************)
(* getUnitStates and serveRoot.                                            *)
(***************************************************************************)

\* What the bus can answer to GetAllProperties.
PropChoices == {CgroupProps(c) : c \in counters} \cup {NoCgroupProps, OddProps}

\* return out, nil (the deferred conn.Close() runs)
ReturnList(r) ==
    [r EXCEPT !.pc = "returned", !.conn = FALSE,
              !.ret = [state |-> "returned", isNil |-> FALSE, list |-> r.out, err |-> NoErr]]

\* (mutant) the records built so far are returned along with the error
ReturnErrWithList(r, err) ==
    [r EXCEPT !.pc = "returned", !.conn = FALSE,
              !.ret = [state |-> "returned", isNil |-> FALSE, list |-> r.out, err |-> err]]

\* (mutant) return nil, err without the deferred conn.Close()
ReturnErrNoClose(r, err) ==
    [r EXCEPT !.pc = "returned",
              !.ret = [state |-> "returned", isNil |-> TRUE, list |-> <<>>, err |-> err]]

\* return nil, err (the deferred conn.Close() runs if the connection was made)
ReturnErr(r, err) ==
    [r EXCEPT !.pc = "returned", !.conn = FALSE,
              !.ret = [state |-> "returned", isNil |-> TRUE, list |-> <<>>, err |-> err]]

\* A runtime fault unwinds getUnitStates: the deferred conn.Close() runs and
\* nothing is returned.
Panicked(r) ==
    [r EXCEPT !.pc = "panicked", !.conn = FALSE, !.ret = [NoRet EXCEPT !.state = "panicked"]]

\* The loop over unitStates from index r.i on, up to the next call of
\* GetAllPropertiesContext (pc "fetch"), the return, or a fault.
RECURSIVE Loop(_)
Loop(r) ==
    IF r.i > Len(r.unitStates) THEN ReturnList(r)
    ELSE LET s == r.unitStates[r.i]
             r0 == [r EXCEPT !.out[r.i].Name = s.Name,
                             !.out[r.i].ActiveState = s.ActiveState]
         IN  IF ~DisplayNameInRange(s.Name) THEN Panicked(r0)
             ELSE LET r1 == [r0 EXCEPT !.out[r.i].DisplayName = DisplayNameOf(s.Name),
                                       !.out[r.i].Running = IsRunning(s.ActiveState)]
                  IN  IF r1.out[r.i].Running THEN [r1 EXCEPT !.pc = "fetch"]
                      ELSE Loop([r1 EXCEPT !.i = @ + 1])

\* The loop body after GetAllPropertiesContext returned p without error.
SetMetrics(r, p) ==
    LET r1 == [r EXCEPT !.out[r.i].Props = p]
    IN  IF ~IsUint64(p, "CPUUsageNSec") THEN Panicked(r1)
        ELSE LET r2 == [r1 EXCEPT !.out[r.i].CPU = CpuOf(AssertUint64(p, "CPUUsageNSec"))]
             IN  IF ~IsUint64(p, "MemoryCurrent") THEN Panicked(r2)
                 ELSE Loop([r2 EXCEPT !.out[r.i].Memory = MemoryOf(AssertUint64(p, "MemoryCurrent")),
                                      !.i = @ + 1])

\* The ways writing the page can go: w rows reach the client before a write
\* fails, or (w = number of rows + 1) every write succeeds.
WriteOutcomes(r) ==
    IF r.pc = "returned" /\ r.ret.err = NoErr THEN 0..(Len(r.ret.list) + 1) ELSE {0}

\* serveRoot once getUnitStates has ended (pc "returned" or "panicked"); while
\* it is still inside getUnitStates the request is left as it is.  A panic is
\* recovered by net/http, which drops the connection without a response.  A
\* failed Execute ends in log.Fatal (pc "fatal").
serveRoot(r, w) ==
    IF r.pc = "panicked" THEN [r EXCEPT !.pc = "done"]
    ELSE IF r.pc # "returned" THEN r
    ELSE IF r.ret.err # NoErr THEN [r EXCEPT !.pc = "done", !.resp = replyError(r.ret.err)]
    ELSE IF w > Len(r.ret.list) THEN [r EXCEPT !.pc = "done", !.resp = Page(r.ret.list)]
    ELSE [r EXCEPT !.pc = "fatal", !.resp = Page(SubSeq(r.ret.list, 1, w))]

Replace(old, new) == (reqs (-) SetToBag({old})) (+) SetToBag({new})

Holds(r) == IF r.conn THEN 1 ELSE 0

\* The rest of the step of request r, which getUnitStates left as r2.  When
\* log.Fatal ends the process, its other requests and its connections end
\* with it.
RootContinue(r, r2) ==
    \E w \in WriteOutcomes(r2) :
        LET r3 == serveRoot(r2, w)
            fatal == r3.pc = "fatal"
        IN  /\ reqs' = IF fatal THEN SetToBag({r3}) ELSE Replace(r, r3)
            /\ busConns' = IF fatal THEN 0 ELSE busConns + Holds(r3) - Holds(r)
            /\ mainpc' = IF fatal THEN "exited" ELSE mainpc
            /\ exitCode' = IF fatal THEN 1 ELSE exitCode
            /\ UNCHANGED << cmds, pwd, ioLog, rconVars, unitFiles, active, counters, nreq >>

Logged(r, c) == [r EXCEPT !.calls = Append(@, c)]

\* conn, err := dbus.NewUserConnectionContext(ctx)
RootConnect(r) ==
    /\ mainpc = "serving"
    /\ r.handler = "serveRoot" /\ r.pc = "connect"
    /\ \E e \in {NoErr, ErrConnect} :
        LET r1 == Logged(r, Call("NewUserConnection", <<>>, "", e, NilProps))
        IN  IF e = NoErr
            THEN RootContinue(r, [r1 EXCEPT !.conn = TRUE, !.pc = "listUnitFiles"])
            ELSE RootContinue(r, ReturnErr(r1, e))

\* unitFiles, err := conn.ListUnitFilesByPatternsContext(ctx, nil, []string{"ark-*"})
\* and the loop that fills unitNames
RootListUnitFiles(r) ==
    /\ mainpc = "serving"
    /\ r.handler = "serveRoot" /\ r.pc = "listUnitFiles"
    /\ \E e \in {NoErr, ErrListUnitFiles} :
        LET r1 == Logged(r, Call("ListUnitFilesByPatterns", <<>>, "", e, NilProps))
        IN  IF e = NoErr
            THEN \E files \in Orderings({UnitPath(n) : n \in unitFiles}) :
                    RootContinue(r, [r1 EXCEPT !.unitNames = UnitNamesOf(files),
                                               !.pc = "listUnits"])
            ELSE RootContinue(r, ReturnErr(r1, e))

\* unitStates, err := conn.ListUnitsByNamesContext(ctx, unitNames), the sort,
\* and the loop up to its first property fetch
RootListUnits(r) ==
    /\ mainpc = "serving"
    /\ r.handler = "serveRoot" /\ r.pc = "listUnits"
    /\ \E e \in {NoErr, ErrListUnits} :
        LET r1 == Logged(r, Call("ListUnitsByNames", <<>>, "", e, NilProps))
        IN  IF e = NoErr
            THEN \E sts \in Orderings({[Name |-> n, ActiveState |-> active[n]] :
                                          n \in Range(r.unitNames)}) :
                    LET sorted == SortByName(sts)
                    IN  RootContinue(r, Loop([r1 EXCEPT
                            !.unitStates = sorted,
                            !.out = [k \in 1..Len(sorted) |-> ZeroUnitStatus],
                            !.i = 1]))
            ELSE RootContinue(r, ReturnErr(r1, e))

\* (mutant) a failed property fetch is skipped over and the loop goes on
RootFetchKeepGoing(r) ==
    /\ mainpc = "serving"
    /\ r.handler = "serveRoot" /\ r.pc = "fetch"
    /\ LET name == r.unitStates[r.i].Name
       IN  \/ \E p \in PropChoices :
                RootContinue(r, SetMetrics(Logged(r, Call("GetAllProperties", name, "", NoErr, p)), p))
           \/ RootContinue(r, Loop([Logged(r, Call("GetAllProperties", name, "",
                                                   ErrGetProperties, NilProps))
                                      EXCEPT !.i = @ + 1]))

\* p, err := conn.GetAllPropertiesContext(ctx, s.Name), the rest of the loop
\* body, and the loop up to its next property fetch
RootFetch(r) ==
    /\ mainpc = "serving"
    /\ r.handler = "serveRoot" /\ r.pc = "fetch"
    /\ LET name == r.unitStates[r.i].Name
       IN  \/ \E p \in PropChoices :
                RootContinue(r, SetMetrics(Logged(r, Call("GetAllProperties", name, "", NoErr, p)), p))
           \/ RootContinue(r, ReturnErr(Logged(r, Call("GetAllProperties", name, "",
                                                       ErrGetProperties, NilProps)),
                                        ErrGetProperties))

(***************************************************************************)
(* rpcStart and rpcStop.                                                   *)
(***************************************************************************)

\* conn, err := dbus.NewUserConnectionContext(ctx) of rpcStart and rpcStop
RpcConnect(r) ==
    /\ mainpc = "serving"
    /\ r.handler \in {"rpcStart", "rpcStop"} /\ r.pc = "connect"
    /\ \E e \in {NoErr, ErrConnect} :
        LET r1 == Logged(r, Call("NewUserConnection", <<>>, "", e, NilProps))
            r2 == IF e = NoErr THEN [r1 EXCEPT !.conn = TRUE, !.pc = "job"]
                  ELSE [r1 EXCEPT !.pc = "done", !.resp = replyError(e)]
        IN  /\ reqs' = Replace(r, r2)
            /\ busConns' = busConns + Holds(r2)
    /\ UNCHANGED << mainVars, rconVars, unitFiles, active, counters, nreq >>

\* (mutant) the segment right after /rpc/start/ instead of the last one
UnitNamedFirstSegment(path) == path[4]

\* unitName := path.Base(r.URL.Path)
UnitNamed(path) == Base(path)

\* What the bus can answer to a start or stop job for a unit.
JobErrors(unit) == IF unit \in unitFiles THEN {NoErr, ErrJob} ELSE {ErrNoSuchUnit}

\* The rest of rpcStart / rpcStop from the job call on: the call with mode
\* "replace", the reply, the deferred conn.Close().
RpcJob(r, op, stateAfter) ==
    LET unitName == UnitNamed(r.path)
    IN  \E e \in JobErrors(unitName) :
            LET r1 == Logged(r, Call(op, unitName, "replace", e, NilProps))
                r2 == [r1 EXCEPT !.pc = "done", !.conn = FALSE,
                                 !.resp = IF e = NoErr THEN Redirect("/", 302)
                                          ELSE replyError(e)]
            IN  /\ reqs' = Replace(r, r2)
                /\ busConns' = busConns - 1
                /\ active' = IF e = NoErr THEN [active EXCEPT ![unitName] = stateAfter]
                             ELSE active

\* conn.StartUnitContext(ctx, unitName, "replace", nil)
rpcStart(r) ==
    /\ mainpc = "serving"
    /\ r.handler = "rpcStart" /\ r.pc = "job"
    /\ RpcJob(r, "StartUnit", "active")
    /\ UNCHANGED << mainVars, rconVars, unitFiles, counters, nreq >>

\* conn.StopUnitContext(ctx, unitName, "replace", nil)
rpcStop(r) ==
    /\ mainpc = "serving"
    /\ r.handler = "rpcStop" /\ r.pc = "job"
    /\ RpcJob(r, "StopUnit", "inactive")
    /\ UNCHANGED << mainVars, rconVars, unitFiles, counters, nreq >>

(***************************************************************************)
(* The HTTP server around the handlers.                                    *)
(***************************************************************************)

\* s.ListenAndServe() hands a request to the mux; at most limit are in flight.
Accept(path, limit) ==
    /\ mainpc = "serving"
    /\ nreq < MaxRequests
    /\ BagCardinality(reqs) < limit
    /\ reqs' = reqs (+) SetToBag({NewRequest(path)})
    /\ nreq' = nreq + 1
    /\ UNCHANGED << mainVars, rconVars, busVars >>

\* The client has its answer (or its dropped connection); the request is over.
Deliver(r) ==
    /\ mainpc = "serving"
    /\ r.pc = "done"
    /\ reqs' = reqs (-) SetToBag({r})
    /\ UNCHANGED << mainVars, rconVars, busVars, nreq >>

(***************************************************************************)
(* main and runRcon.                                                       *)
(***************************************************************************)

Exit(code) == mainpc' = "exited" /\ exitCode' = code

\* (mutant) main without the checks of *pwd
MainNoPwdCheck ==
    /\ mainpc = "start"
    /\ mainpc' = IF Len(cmds) # 0 THEN "rcon" ELSE "server"
    /\ UNCHANGED << cmds, pwd, exitCode, ioLog, rconVars, busVars, reqs, nreq >>

\* main: flag.Parse() and the checks of flag.NArg() and *pwd
Main ==
    /\ mainpc = "start"
    /\ IF Len(cmds) # 0
       THEN IF pwd = "" THEN Exit(1) ELSE mainpc' = "rcon" /\ UNCHANGED exitCode
       ELSE IF pwd # "" THEN Exit(1) ELSE mainpc' = "server" /\ UNCHANGED exitCode
    /\ UNCHANGED << cmds, pwd, ioLog, rconVars, busVars, reqs, nreq >>

\* runRcon: conn, err := rcon.Dial(host, pwd)
RconDial ==
    /\ mainpc = "rcon"
    /\ ioLog' = Append(ioLog, "rcon.Dial")
    /\ \/ rconOpen' = TRUE /\ mainpc' = "rconLoop" /\ UNCHANGED exitCode
       \/ Exit(1) /\ UNCHANGED rconOpen
    /\ UNCHANGED << cmds, pwd, stdout, rconSent, rconK, busVars, reqs, nreq >>

\* runRcon: fmt.Printf("Running: ...") and the request half of conn.Execute(a),
\* which can fail before anything is written to the connection.
RconExecute ==
    /\ mainpc = "rconLoop"
    /\ LET a == cmds[rconK + 1]
       IN  /\ stdout' = Append(stdout, [line |-> "Running", text |-> a])
           /\ \/ rconSent' = Append(rconSent, a) /\ mainpc' = "rconWait" /\ UNCHANGED exitCode
              \/ Exit(1) /\ UNCHANGED rconSent
    /\ UNCHANGED << cmds, pwd, ioLog, rconOpen, rconK, busVars, reqs, nreq >>

RconResponse == "Server received, But no response!!"

\* (mutant) an Execute error is skipped over instead of ending the run
RconReplyNoFailFast ==
    /\ mainpc = "rconWait"
    /\ rconK' = rconK + 1
    /\ \/ stdout' = Append(stdout, [line |-> "Got", text |-> RconResponse])
       \/ UNCHANGED stdout
    /\ IF rconK + 1 = Len(cmds)
       THEN Exit(0) /\ rconOpen' = FALSE
       ELSE mainpc' = "rconLoop" /\ UNCHANGED << exitCode, rconOpen >>
    /\ UNCHANGED << cmds, pwd, ioLog, rconSent, busVars, reqs, nreq >>

\* runRcon: the response half of conn.Execute(a), log.Fatal on an error, else
\* fmt.Printf("  Got: ...") and the next round of the loop; after the last
\* command the deferred conn.Close() runs and main returns.
RconReply ==
    /\ mainpc = "rconWait"
    /\ \/ /\ stdout' = Append(stdout, [line |-> "Got", text |-> RconResponse])
          /\ rconK' = rconK + 1
          /\ IF rconK + 1 = Len(cmds)
             THEN Exit(0) /\ rconOpen' = FALSE
             ELSE mainpc' = "rconLoop" /\ UNCHANGED << exitCode, rconOpen >>
       \/ Exit(1) /\ UNCHANGED << stdout, rconK, rconOpen >>
    /\ UNCHANGED << cmds, pwd, ioLog, rconSent, busVars, reqs, nreq >>

\* runServer: log.Fatal(s.ListenAndServe()), which returns only on an error
Listen ==
    /\ mainpc = "server"
    /\ ioLog' = Append(ioLog, "http.Listen")
    /\ \/ mainpc' = "serving" /\ UNCHANGED exitCode
       \/ Exit(1)
    /\ UNCHANGED << cmds, pwd, rconVars, busVars, reqs, nreq >>

(***************************************************************************)
(* Specifications.                                                         *)
(***************************************************************************)

\* Command lines.
CmdLines == {<<>>, <<"SaveWorld">>, <<"ListPlayers", "SaveWorld">>}
Passwords == {"", "hunter2"}

\* Counter readings of the bus's units.
FewCounters ==
    { [cpu |-> 0, mem |-> 0],
      [cpu |-> 50000000, mem |-> 50000],
      [cpu |-> 1234500000, mem |-> 523456789] }

SweepStepCpu == 5 * 10^7
SweepStepMem == 5 * 10^4

SweepCounters ==
    { [cpu |-> j * SweepStepCpu + d, mem |-> j * SweepStepMem + d] :
        j \in 1..MaxSweep, d \in {-1, 0, 1} }
    \cup FewCounters

\* Sets of unit files the bus can hold.
FileSets ==
    { {}, {SelfUnit}, {UnitIsland}, {SelfUnit, UnitIsland}, {UnitBare, UnitIsland},
      {SelfUnit, UnitRagnarok, UnitIsland}, {UnitTimer, UnitIsland} }

\* The states of the units: the manager runs as its own unit when installed.
ActiveMaps(files) ==
    {a \in [files -> ActiveStates] : SelfUnit \in files => a[SelfUnit] = "active"}

\* URL paths of the requests sent to the server.
RequestPaths ==
    { RootPath,
      StartPath(<<UnitIsland>>),
      StopPath(<<UnitIsland>>),
      StopPath(<<UnitRagnarok, <<>> >>),
      StartPath(<< <<"m", "a", "p", "s">>, UnitRagnarok >>) }

InitProcess ==
    /\ mainpc = "start" /\ exitCode = 0 /\ ioLog = <<>>
    /\ stdout = <<>> /\ rconSent = <<>> /\ rconOpen = FALSE /\ rconK = 0
    /\ busConns = 0 /\ reqs = EmptyBag /\ nreq = 0

\* The process as started from any command line.
Init ==
    /\ cmds \in CmdLines /\ pwd \in Passwords
    /\ InitProcess
    /\ unitFiles \in {{SelfUnit, UnitIsland}, {SelfUnit, UnitRagnarok, UnitIsland}}
    /\ active \in {a \in ActiveMaps(unitFiles) :
                     \A n \in unitFiles : a[n] \in {"active", "inactive"}}
    /\ counters = {[cpu |-> 1234500000, mem |-> 523456789]}

Next ==
    \/ Main
    \/ RconDial
    \/ RconExecute
    \/ RconReply
    \/ Listen
    \/ \E path \in RequestPaths : Accept(path, MaxInFlight)
    \/ \E r \in BagToSet(reqs) : RootConnect(r)
    \/ \E r \in BagToSet(reqs) : RootListUnitFiles(r)
    \/ \E r \in BagToSet(reqs) : RootListUnits(r)
    \/ \E r \in BagToSet(reqs) : RootFetch(r)
    \/ \E r \in BagToSet(reqs) : RpcConnect(r)
    \/ \E r \in BagToSet(reqs) : rpcStart(r)
    \/ \E r \in BagToSet(reqs) : rpcStop(r)
    \/ \E r \in BagToSet(reqs) : Deliver(r)

Spec == Init /\ [][Next]_vars

\* The server, listening, answering GET / one request at a time, against every
\* set of unit files and unit states.
Serving ==
    /\ cmds = <<>> /\ pwd = ""
    /\ mainpc = "serving" /\ exitCode = 0 /\ ioLog = <<"http.Listen">>
    /\ stdout = <<>> /\ rconSent = <<>> /\ rconOpen = FALSE /\ rconK = 0
    /\ busConns = 0 /\ reqs = EmptyBag /\ nreq = 0

InitUnits ==
    /\ Serving
    /\ unitFiles \in FileSets
    /\ active \in ActiveMaps(unitFiles)
    /\ counters = FewCounters

NextUnits ==
    \/ Accept(RootPath, 1)
    \/ \E r \in BagToSet(reqs) : RootConnect(r)
    \/ \E r \in BagToSet(reqs) : RootListUnitFiles(r)
    \/ \E r \in BagToSet(reqs) : RootListUnits(r)
    \/ \E r \in BagToSet(reqs) : RootFetch(r)
    \/ \E r \in BagToSet(reqs) : Deliver(r)

SpecUnits == InitUnits /\ [][NextUnits]_vars

\* The same, against one running unit whose counters sweep a range.
InitSweep ==
    /\ Serving
    /\ unitFiles = {UnitIsland}
    /\ active = [n \in unitFiles |-> "active"]
    /\ counters = SweepCounters

SpecSweep == InitSweep /\ [][NextUnits]_vars

(***************************************************************************)
(* Properties.                                                             *)
(***************************************************************************)

Requests == BagToSet(reqs)

\* The GET / requests whose getUnitStates call returned a list and no error.
Listed == {r \in Requests : r.handler = "serveRoot" /\ r.ret.state = "returned"
                            /\ r.ret.err = NoErr}

Names(list) == [k \in 1..Len(list) |-> list[k].Name]

\* The property fetches of request r for the unit called name.
Fetches(r, name) ==
    {k \in 1..Len(r.calls) : r.calls[k].op = "GetAllProperties" /\ r.calls[k].unit = name}

\* C1: a successful getUnitStates returns exactly one record per enumerated
\* unit file other than ark-serman.service, none named ark-serman.service,
\* in ascending order of Name.
C1_OnePerUnitSorted ==
    \A r \in Listed :
        LET names == Names(r.ret.list)
        IN  /\ Range(names) = unitFiles \ {SelfUnit}
            /\ Len(names) = Cardinality(unitFiles \ {SelfUnit})
            /\ \A k \in 1..Len(names) : names[k] # SelfUnit
            /\ \A k \in 1..(Len(names) - 1) : StrLess(names[k], names[k + 1])

\* Two records returned, in order, from three unit files of which one is the
\* manager's own.
C1_Witness ==
    \E r \in Listed :
        /\ unitFiles = {SelfUnit, UnitRagnarok, UnitIsland}
        /\ Names(r.ret.list) = <<UnitIsland, UnitRagnarok>>

\* C2: in every returned record Running holds exactly for the states active,
\* activating, deactivating; a record that is not running has no Props and
\* zero metrics and no property fetch was made for it; a running record has
\* the Props and the metrics of the one fetch made for its own unit.
C2_RunningAndMetrics ==
    \A r \in Listed :
        \A k \in 1..Len(r.ret.list) :
            LET u == r.ret.list[k]
                f == Fetches(r, u.Name)
            IN  /\ u.Running <=> u.ActiveState \in {"active", "activating", "deactivating"}
                /\ ~u.Running =>
                      u.Props = NilProps /\ u.CPU = 0 /\ u.Memory = 0 /\ f = {}
                /\ u.Running =>
                      /\ Cardinality(f) = 1
                      /\ \A j \in f :
                            /\ r.calls[j].err = NoErr
                            /\ u.Props = r.calls[j].props
                            /\ u.CPU = CpuOf(r.calls[j].props.m["CPUUsageNSec"].val)
                            /\ u.Memory = MemoryOf(r.calls[j].props.m["MemoryCurrent"].val)

\* A returned list with a stopping unit (running, with its fetched counters)
\* next to a failed one (not running).
C2_Witness ==
    \E r \in Listed :
        /\ Len(r.ret.list) = 2
        /\ r.ret.list[1].ActiveState = "deactivating" /\ r.ret.list[1].Running
        /\ r.ret.list[1].Props = CgroupProps([cpu |-> 1234500000, mem |-> 523456789])
        /\ r.ret.list[2].ActiveState = "failed" /\ ~r.ret.list[2].Running

\* C3: getUnitStates is all-or-nothing.  A failed bus call is the last call of
\* the request and makes getUnitStates return that call's error with a nil
\* list; an error is never returned with a list; a list is returned only when
\* no call failed.
C3_AllOrNothing ==
    \A r \in {q \in Requests : q.handler = "serveRoot"} :
        /\ \A k \in 1..Len(r.calls) :
              r.calls[k].err # NoErr =>
                  /\ k = Len(r.calls)
                  /\ r.ret = [state |-> "returned", isNil |-> TRUE, list |-> <<>>,
                              err |-> r.calls[k].err]
        /\ r.ret.state = "returned" /\ r.ret.err # NoErr =>
              /\ r.ret.isNil /\ r.ret.list = <<>>
              /\ r.calls # <<>> /\ r.calls[Len(r.calls)].err = r.ret.err
        /\ r.ret.state = "returned" /\ r.ret.err = NoErr =>
              /\ ~r.ret.isNil
              /\ \A k \in 1..Len(r.calls) : r.calls[k].err = NoErr
              /\ Len(r.calls) >= 3
        /\ r.ret.state # "returned" => r.ret.isNil /\ r.ret.list = <<>>

\* The property fetch of the second of two running units failed after the
\* first record was complete, and nothing of it was returned.
C3_Witness ==
    \E r \in Requests :
        /\ r.handler = "serveRoot" /\ r.ret.state = "returned"
        /\ Len(r.calls) = 5
        /\ r.calls[4].op = "GetAllProperties" /\ r.calls[4].err = NoErr
        /\ r.calls[5].op = "GetAllProperties" /\ r.calls[5].err = ErrGetProperties
        /\ r.out[1].Props # NilProps
        /\ r.ret.err = ErrGetProperties /\ r.ret.isNil

\* C4: in every returned record DisplayName is Name without its first 4 and
\* its last 8 characters; ark-island.service gives island.
C4_DisplayName ==
    \A r \in Listed :
        \A k \in 1..Len(r.ret.list) :
            LET u == r.ret.list[k]
            IN  /\ Len(u.DisplayName) = Len(u.Name) - 12
                /\ \A c \in 1..Len(u.DisplayName) : u.DisplayName[c] = u.Name[c + 4]
                /\ u.Name = UnitIsland => u.DisplayName = <<"i", "s", "l", "a", "n", "d">>

C4_Witness ==
    \E r \in Listed :
        \E k \in 1..Len(r.ret.list) :
            /\ r.ret.list[k].Name = UnitIsland
            /\ r.ret.list[k].DisplayName = <<"i", "s", "l", "a", "n", "d">>

\* The running records of the returned lists, each with the counters its
\* property fetch read.
Metered ==
    UNION {{[u |-> r.ret.list[k], counters |-> r.ret.list[k].Props.m] :
                k \in {j \in 1..Len(r.ret.list) : r.ret.list[j].Running}} : r \in Listed}

\* C5: the CPU of a running record, in tenths of a second, is its counter c
\* of nanoseconds divided by 10^8 and rounded, halves up:
\* floor((c + 50_000_000) / 100_000_000); c = 1_234_500_000 gives 1.2.
C5_CpuRounded ==
    \A x \in Metered :
        LET c == x.counters["CPUUsageNSec"].val
        IN  /\ x.u.CPU = (c + 50000000) \div 100000000
            /\ c = 1234500000 => x.u.CPU = 12

C5_Witness ==
    \E x \in Metered :
        x.counters["CPUUsageNSec"].val = 1234500000 /\ x.u.CPU = 12

\* C6 (stated as claimed): the Memory of a running record, in tenths of 10^6
\* bytes, is its counter m of bytes divided by 10^5 and rounded, halves up:
\* floor((m + 50_000) / 100_000); m = 523_456_789 gives 523.5.
C6_MemoryRounded ==
    \A x \in Metered :
        LET m == x.counters["MemoryCurrent"].val
        IN  /\ x.u.Memory = (m + 50000) \div 100000
            /\ m = 523456789 => x.u.Memory = 5235

\* C7 (stated as claimed): every GET / request that has been handled has
\* exactly one of two outcomes: the page, as text/html, with one row per
\* record returned by getUnitStates, in its order, when getUnitStates gave a
\* list; or status 500, as text/plain, with the error text, when it did not.
C7_OneOutcome ==
    \A r \in {q \in Requests : q.handler = "serveRoot" /\ q.pc = "done"} :
        /\ r.resp.status \in {200, 500}
        /\ r.resp.status = 200 =>
              /\ r.ret.state = "returned" /\ r.ret.err = NoErr
              /\ r.resp.ctype = "text/html"
              /\ Len(r.resp.rows) = Len(r.ret.list)
              /\ \A k \in 1..Len(r.ret.list) : r.resp.rows[k] = Row(r.ret.list[k])
        /\ r.resp.status = 500 =>
              /\ r.ret.state = "returned" /\ r.ret.err # NoErr
              /\ r.resp.ctype = "text/plain"
              /\ r.resp.text = r.ret.err
              /\ r.resp.rows = <<>>

\* The last segment of a path that is not empty.
FinalSegment(path) ==
    path[CHOOSE k \in 1..Len(path) :
            path[k] # <<>> /\ \A j \in (k + 1)..Len(path) : path[j] = <<>>]

\* The start and stop jobs request r asked the bus for.
Jobs(r) == {k \in 1..Len(r.calls) : r.calls[k].op \in {"StartUnit", "StopUnit"}}

\* C8: a request to /rpc/start/<unit> (/rpc/stop/<unit>) asks the bus for at
\* most one job, a start (stop) of the unit named by the final path segment,
\* with mode replace; it is answered 302 to / exactly when the connection and
\* the job succeeded, and otherwise 500, text/plain, with the error text.
C8_RpcOneJob ==
    \A r \in {q \in Requests : q.handler \in {"rpcStart", "rpcStop"}} :
        /\ Cardinality(Jobs(r)) <= 1
        /\ \A k \in Jobs(r) :
              /\ r.calls[k].op = (IF r.path[3] = Start THEN "StartUnit" ELSE "StopUnit")
              /\ r.calls[k].unit = FinalSegment(r.path)
              /\ r.calls[k].mode = "replace"
        /\ r.pc = "done" =>
              LET failed == {k \in 1..Len(r.calls) : r.calls[k].err # NoErr}
              IN  /\ r.resp.status = 302 <=> (failed = {} /\ Jobs(r) # {})
                  /\ r.resp.status = 302 => r.resp.location = "/"
                  /\ r.resp.status # 302 =>
                        /\ r.resp.status = 500 /\ r.resp.ctype = "text/plain"
                        /\ \E k \in failed : r.resp.text = r.calls[k].err
                        /\ Cardinality(failed) = 1

\* A start of the unit named at the end of a longer path was refused by the
\* bus, and a stop named with a trailing slash was redirected.
C8_Witness ==
    /\ \E r \in Requests :
          /\ r.path = StartPath(<< <<"m", "a", "p", "s">>, UnitRagnarok >>)
          /\ r.pc = "done" /\ r.resp.status = 500
          /\ \E k \in Jobs(r) : r.calls[k].unit = UnitRagnarok
    /\ \E r \in Requests :
          /\ r.path = StopPath(<<UnitRagnarok, <<>> >>)
          /\ r.pc = "done" /\ r.resp = Redirect("/", 302)
          /\ active[UnitRagnarok] = "inactive"

Count(seq, x) == Cardinality({k \in 1..Len(seq) : seq[k] = x})

GotLines == Cardinality({k \in 1..Len(stdout) : stdout[k].line = "Got"})

\* C9: runRcon dials once; what the server received is a prefix of the
\* commands, in their order; a command is sent only when every command
\* before it has been answered and its answer printed, so after a failed
\* command nothing more is sent.
C9_RconInOrder ==
    /\ Count(ioLog, "rcon.Dial") <= 1
    /\ rconSent # <<>> => Count(ioLog, "rcon.Dial") = 1
    /\ Len(rconSent) <= Len(cmds)
    /\ rconSent = SubSeq(cmds, 1, Len(rconSent))
    /\ Len(rconSent) <= GotLines + 1
    /\ \A k \in 1..Len(stdout) :
          stdout[k] = IF k % 2 = 1 THEN [line |-> "Running", text |-> cmds[(k + 1) \div 2]]
                      ELSE [line |-> "Got", text |-> RconResponse]
    /\ mainpc = "exited" /\ exitCode = 0 /\ cmds # <<>> =>
          rconSent = cmds /\ GotLines = Len(cmds)

\* The first of two commands failed: the run ended with exit code 1 and the
\* second was never sent.
C9_Witness ==
    /\ cmds = <<"ListPlayers", "SaveWorld">>
    /\ mainpc = "exited" /\ exitCode = 1
    /\ rconSent = <<"ListPlayers">>
    /\ GotLines = 0

ArgsViolated == (Len(cmds) # 0 /\ pwd = "") \/ (Len(cmds) = 0 /\ pwd # "")

\* C10: with commands and no -pwd, or -pwd and no commands, the process does
\* no network I/O and can only exit with code 1; the RCON client runs only
\* with commands and a -pwd, the HTTP server only with neither.
C10_ArgumentContract ==
    /\ ArgsViolated =>
          /\ ioLog = <<>> /\ rconSent = <<>> /\ ~rconOpen /\ nreq = 0
          /\ mainpc \in {"start", "exited"}
          /\ mainpc = "exited" => exitCode = 1
    /\ Count(ioLog, "rcon.Dial") > 0 \/ mainpc \in {"rcon", "rconLoop", "rconWait"} =>
          Len(cmds) # 0 /\ pwd # ""
    /\ Count(ioLog, "http.Listen") > 0 \/ mainpc \in {"server", "serving"} =>
          Len(cmds) = 0 /\ pwd = ""

C10_Witness ==
    /\ cmds = <<"SaveWorld">> /\ pwd = ""
    /\ mainpc = "exited" /\ exitCode = 1 /\ ioLog = <<>>

(***************************************************************************)
(* Connections.                                                            *)
(***************************************************************************)

\* The connections held by the requests of the set S, each counted as often
\* as the request occurs.
RECURSIVE HeldBy(_)
HeldBy(S) ==
    IF S = {} THEN 0
    ELSE LET r == CHOOSE x \in S : TRUE
         IN  CopiesIn(r, reqs) * Holds(r) + HeldBy(S \ {r})

\* The successful NewUserConnection calls of request r.
Opened(r) ==
    {k \in 1..Len(r.calls) : r.calls[k].op = "NewUserConnection" /\ r.calls[k].err = NoErr}

\* The request is inside getUnitStates, rpcStart or rpcStop, past the connect.
InsideCall(r) == r.pc \in {"listUnitFiles", "listUnits", "fetch", "job"}

ConnectionsScoped ==
    /\ busConns = HeldBy(Requests)
    /\ \A r \in Requests :
          /\ Cardinality(Opened(r)) <= 1
          /\ r.conn <=> (InsideCall(r) /\ Opened(r) # {})
          /\ InsideCall(r) => Opened(r) # {}
          /\ r.ret.state # "none" => ~r.conn
          /\ r.pc \in {"done", "fatal"} => ~r.conn
    /\ (\A r \in Requests : ~InsideCall(r) /\ r.pc # "connect") => busConns = 0

\* A step of the running server touches one request at most.
OneRequestPerStep ==
    mainpc' = "serving" =>
        /\ BagCardinality(reqs (-) reqs') <= 1
        /\ BagCardinality(reqs' (-) reqs) <= 1

\* C11: every bus connection opened by getUnitStates, rpcStart or rpcStop is
\* closed when that call has ended, on every exit path; every request holds
\* its own connection (the open connections are exactly those held by the
\* requests inside their call, one each), no step of one request changes
\* another, and with no request in flight no connection is open.
C11_ConnectionsScoped == []ConnectionsScoped /\ [][OneRequestPerStep]_vars

\* Two requests are in flight; one has ended on an error after it had
\* connected, and its connection is closed, while the other holds its own.
C11_Witness ==
    \E r \in Requests, q \in Requests :
        /\ r.pc = "done" /\ Opened(r) # {} /\ r.resp.status = 500 /\ ~r.conn
        /\ q.conn /\ InsideCall(q)
        /\ busConns = 1

(***************************************************************************)
(* Property fetches.                                                       *)
(***************************************************************************)

\* The calls of request r that are property fetches, in the order issued.
FetchCalls(r) == SelectSeq(r.calls, LAMBDA c : c.op = "GetAllProperties")

\* The position in r.calls of its successful batched status query, 0 if none.
StatusQueryAt(r) ==
    IF \E k \in 1..Len(r.calls) : r.calls[k].op = "ListUnitsByNames" /\ r.calls[k].err = NoErr
    THEN CHOOSE k \in 1..Len(r.calls) :
            r.calls[k].op = "ListUnitsByNames" /\ r.calls[k].err = NoErr
    ELSE 0

\* The units the batched status query reported in a running state.
ReportedRunning(r) ==
    {r.unitStates[k].Name : k \in {j \in 1..Len(r.unitStates) :
        r.unitStates[j].ActiveState \in {"active", "activating", "deactivating"}}}

FetchesInOrder ==
    \A r \in {q \in Requests : q.handler = "serveRoot"} :
        LET f == FetchCalls(r)
        IN  /\ \A k \in 1..Len(r.calls) :
                  r.calls[k].op = "GetAllProperties" =>
                      /\ StatusQueryAt(r) # 0 /\ StatusQueryAt(r) < k
                      /\ r.calls[k].unit \in ReportedRunning(r)
            /\ \A k \in 1..(Len(f) - 1) :
                  /\ StrLess(f[k].unit, f[k + 1].unit)
                  /\ f[k].err = NoErr
            /\ \A k \in 1..Len(f) : Cardinality(Fetches(r, f[k].unit)) = 1
            /\ r.pc = "fetch" => \A k \in 1..Len(f) :
                  f[k].err = NoErr /\ StrLess(f[k].unit, r.unitStates[r.i].Name)

\* A step issues one bus call at most, and it has returned when the step ends.
OneCallPerStep ==
    \A r \in Requests : \A q \in BagToSet(reqs') :
        Len(q.calls) <= Len(r.calls) + 1

\* C12: in one getUnitStates call every property fetch comes after the
\* successful batched status query, names a unit that query reported running
\* (never one it reported not running), no unit is fetched twice, the fetches
\* are in ascending order of unit name, each has returned before the next is
\* issued, and a failed fetch is the last one.
C12_FetchesSequential == []FetchesInOrder /\ [][OneCallPerStep]_vars

\* A call that fetched the properties of two running units, island before
\* ragnarok, the second fetch failing and ending the call.
C12_Witness ==
    \E r \in Requests :
        LET f == FetchCalls(r)
        IN  /\ Len(f) = 2
            /\ f[1].unit = UnitIsland /\ f[1].err = NoErr
            /\ f[2].unit = UnitRagnarok /\ f[2].err = ErrGetProperties
            /\ r.ret.state = "returned" /\ r.ret.err = ErrGetProperties

(***************************************************************************)
(* Runtime faults.                                                         *)
(***************************************************************************)

\* C13 (stated as claimed): getUnitStates never ends by a runtime fault:
\* whatever unit names and property maps the bus answers with, a call that
\* has ended has returned a list and no error, or an error and no list.
C13_NoRuntimeFault ==
    \A r \in {q \in Requests : q.handler = "serveRoot" /\ q.ret.state # "none"} :
        /\ r.ret.state = "returned"
        /\ r.ret.err = NoErr => ~r.ret.isNil
        /\ r.ret.err # NoErr => r.ret.isNil /\ r.ret.list = <<>>

====
